---- MODULE Spec2Model ----
(***************************************************************************)
(* Model of src/utils/images_grid.py: one call of                          *)
(* create_images_grid_by_columns / create_images_grid_by_rows, followed    *)
(* through _create_images_grid, _arrange_images_on_grid and                *)
(* _create_grid_annotations with its two label loops.                      *)
(*                                                                         *)
(* An image is its size <<width, height>>.  A text is its advance length   *)
(* (font.getlength) counted in 1/SubPixel pixels, so that int() really     *)
(* truncates.  A canvas is its size; what is pasted or drawn on it is      *)
(* kept as the list of paste / draw calls made so far.  An absent value    *)
(* (None, a canvas not yet allocated) is the empty sequence.               *)
(***************************************************************************)
EXTENDS Integers, Sequences, FiniteSets

(* ---------------------------- bounds ----------------------------------- *)
MaxImages == 4
MaxCount == 3
MaxTile == 2
MaxGap == 1
MaxLabels == 2

\* font.getlength returns a float: lengths are counted in 1/SubPixel pixels
SubPixel == 2

Texts == {1, 3}
FontSizes == {2, 3}
Entries == {"by_columns", "by_rows"}

\* tile sizes: every width, with the least and the greatest height
Sizes == (1..MaxTile) \X {1, MaxTile}

Gaps == {0, MaxGap}

\* sizes of an image that differs from the first: smaller, larger, or mixed
OtherSizes == (1..(MaxTile + 1)) \X (1..(MaxTile + 1))

SeqsUpTo(S, n) == UNION {[1..k -> S] : k \in 0..n}

\* image lists in which every image has the first image's size
EqualImageLists == {[k \in 1..n |-> s] : n \in 1..MaxImages, s \in Sizes}

\* image lists in which at most one image (never the first) has another size
MixedImageLists ==
    {[k \in 1..n |-> IF k = p THEN o ELSE s] :
        n \in 1..MaxImages, s \in Sizes, o \in OtherSizes, p \in 2..(MaxImages + 1)}

\* column labels matter by position only: alternating texts of every length
ColumnLists == {[k \in 1..n |-> IF k % 2 = 1 THEN 1 ELSE 3] : n \in 0..MaxLabels}
RowLists == SeqsUpTo(Texts, MaxLabels)

Annotation(c, r, f) == [column_texts |-> c, row_texts |-> r, font_size |-> f]

Annotations ==
    {<<>>} \cup {<<Annotation(c, r, f)>> : c \in ColumnLists, r \in RowLists, f \in FontSizes}

SampleAnnotations ==
    {<<>>, <<Annotation(<<>>, <<3>>, 2)>>, <<Annotation(<<1>>, <<1, 3>>, 3)>>}

\* no loop of the code runs this far; keeps a diverging loop finite
CoordCap == 4 * (MaxTile + MaxGap + 1) * (MaxImages + MaxCount + 1)

VARIABLES
    entry,          \* which public function was called
    images,         \* argument images
    gap,            \* argument gap
    max_arg,        \* argument max_columns (by_columns) or max_rows (by_rows)
    annotation,     \* argument annotation: <<>> or <<Annotation>>
    pc,             \* position in the call
    max_columns,    \* _create_images_grid parameters
    max_rows,
    size,           \* images[0].size, <<>> before it is read
    grid_size,      \* grid_image.size, <<>> before Image.new
    idx,            \* enumerate index of _arrange_images_on_grid
    pastes,         \* grid_image.paste calls, in order
    left_padding,
    top_padding,
    image_size,     \* the annotated canvas, <<>> before Image.new
    grid_offset,    \* where the grid was pasted on the annotated canvas
    xy,             \* (x0, y0, x1, y1) of the running label loop
    i,              \* label index of the running label loop
    bands,          \* _draw_text_by_xy calls, in order
    result          \* returned image: <<>> or <<[canvas, size]>>

vars == <<entry, images, gap, max_arg, annotation, pc, max_columns, max_rows, size,
          grid_size, idx, pastes, left_padding, top_padding, image_size, grid_offset,
          xy, i, bands, result>>

args == <<entry, images, gap, max_arg, annotation>>

(* ----------------------- pure helpers of the code ---------------------- *)

\* line 28
max_rows_of(imgs, columns) == (Len(imgs) + columns - 1) \div columns

\* slips of line 38: one column too many on exact division; floor instead of ceiling
max_columns_of_one_more(imgs, rows) == (Len(imgs) + rows) \div rows
max_columns_of_floor(imgs, rows) == IF Len(imgs) < rows THEN 1 ELSE Len(imgs) \div rows

\* line 38
max_columns_of(imgs, rows) == (Len(imgs) + rows - 1) \div rows

\* slip of line 49: the last image's size
one_image_size_of_last(imgs) == imgs[Len(imgs)]

\* line 49
one_image_size(imgs) == imgs[1]

\* line 50
grid_width(sz, columns, g) == sz[1] * columns + (columns - 1) * g

\* line 51
grid_height(sz, rows, g) == sz[2] * rows + (rows - 1) * g

\* create_images_grid_by_columns down to Image.new: lines 28 and 49-53
by_columns_grid_size(imgs, g, columns) ==
    <<grid_width(one_image_size(imgs), columns, g),
      grid_height(one_image_size(imgs), max_rows_of(imgs, columns), g)>>

\* slip of line 80: only an image that is too large is cropped
needs_crop_when_larger(img, sz) == img[1] > sz[1] \/ img[2] > sz[2]

\* lines 80-81: crop((0, 0, *size)) yields an image of the box's size
needs_crop(img, sz) == img # sz

pasted_image(img, sz) == IF needs_crop(img, sz) THEN sz ELSE img

\* slip of line 83: the row found by dividing by one column too many
paste_origin_wrong_row(n, sz, columns, g) ==
    <<(n % columns) * (sz[1] + g), (n \div (columns + 1)) * (sz[2] + g)>>

\* lines 82-83
paste_origin(n, sz, columns, g) ==
    <<(n % columns) * (sz[1] + g), (n \div columns) * (sz[2] + g)>>

\* slip of line 94: "and" for "or"
annotation_invalid_both(column_texts, row_texts) == column_texts = <<>> /\ row_texts = <<>>

\* line 94
annotation_invalid(column_texts, row_texts) == column_texts = <<>> \/ row_texts = <<>>

\* slip of line 98: rounding up
margin_of_rounded_up(font_size) == (font_size + 1) \div 2

\* line 98
margin_of(font_size) == font_size \div 2

SeqMax(s) == CHOOSE m \in {s[k] : k \in 1..Len(s)} : \A k \in 1..Len(s) : s[k] <= m

\* line 99: int(max(map(font.getlength, row_texts))) + 2*margin
left_padding_of(row_texts, font_size) ==
    (SeqMax(row_texts) \div SubPixel) + 2 * margin_of(font_size)

\* line 100
top_padding_of(font_size) == font_size + 2 * margin_of(font_size)

\* line 195
lower_left_offset(base, img) == <<base[1] - img[1], base[2] - img[2]>>

\* slip of lines 143-144 / 161-162: the gap left out of the step
band_step_without_gap(tile, g) == tile

\* lines 143-144 / 161-162
band_step(tile, g) == tile + g

\* slip of lines 172-173: the index clamped to the last label instead of skipped
drawn_text_clamped(texts, index) ==
    IF texts = <<>> THEN <<>>
    ELSE IF index < Len(texts) THEN <<texts[index + 1]>> ELSE <<texts[Len(texts)]>>

\* lines 172-173: texts[index], IndexError suppressed; <<>> when nothing is drawn
drawn_text(texts, index) ==
    IF 0 <= index /\ index < Len(texts) THEN <<texts[index + 1]>>
    ELSE IF index < 0 /\ -index <= Len(texts) THEN <<texts[Len(texts) + index + 1]>>
    ELSE <<>>

(* ------------------------------ states --------------------------------- *)

InitWith(lists, annotations) ==
    /\ entry \in Entries
    /\ images \in lists
    /\ gap \in Gaps
    /\ max_arg \in 1..MaxCount
    /\ annotation \in annotations
    /\ pc = "call"
    /\ max_columns = 0
    /\ max_rows = 0
    /\ size = <<>>
    /\ grid_size = <<>>
    /\ idx = 0
    /\ pastes = <<>>
    /\ left_padding = 0
    /\ top_padding = 0
    /\ image_size = <<>>
    /\ grid_offset = <<>>
    /\ xy = <<>>
    /\ i = 0
    /\ bands = <<>>
    /\ result = <<>>

Init == InitWith(EqualImageLists, Annotations)

InitMixed == InitWith(MixedImageLists, SampleAnnotations)

(* ------------------------------ actions -------------------------------- *)

\* create_images_grid_by_columns, lines 22-29
create_images_grid_by_columns ==
    /\ pc = "call"
    /\ entry = "by_columns"
    /\ max_columns' = max_arg
    /\ max_rows' = max_rows_of(images, max_arg)
    /\ pc' = "create"
    /\ UNCHANGED <<args, size, grid_size, idx, pastes, left_padding, top_padding,
                   image_size, grid_offset, xy, i, bands, result>>

\* create_images_grid_by_rows, lines 32-39
create_images_grid_by_rows ==
    /\ pc = "call"
    /\ entry = "by_rows"
    /\ max_columns' = max_columns_of(images, max_arg)
    /\ max_rows' = max_arg
    /\ pc' = "create"
    /\ UNCHANGED <<args, size, grid_size, idx, pastes, left_padding, top_padding,
                   image_size, grid_offset, xy, i, bands, result>>

\* _create_images_grid, lines 49-53: the grid canvas is allocated
create_images_grid ==
    /\ pc = "create"
    /\ size' = one_image_size(images)
    /\ grid_size' = <<grid_width(size', max_columns, gap), grid_height(size', max_rows, gap)>>
    /\ idx' = 0
    /\ pc' = "arrange"
    /\ UNCHANGED <<args, max_columns, max_rows, pastes, left_padding, top_padding,
                   image_size, grid_offset, xy, i, bands, result>>

\* _arrange_images_on_grid, lines 79-85: one iteration
arrange_images_on_grid ==
    /\ pc = "arrange"
    /\ idx < Len(images)
    /\ LET image == images[idx + 1]
           at == paste_origin(idx, size, max_columns, gap)
       IN pastes' = Append(pastes, [index |-> idx,
                                    cropped |-> needs_crop(image, size),
                                    source |-> pasted_image(image, size),
                                    x |-> at[1],
                                    y |-> at[2]])
    /\ idx' = idx + 1
    /\ UNCHANGED <<args, pc, max_columns, max_rows, size, grid_size, left_padding,
                   top_padding, image_size, grid_offset, xy, i, bands, result>>

\* _create_images_grid, lines 57-58
return_grid ==
    /\ pc = "arrange"
    /\ idx = Len(images)
    /\ annotation = <<>>
    /\ result' = <<[canvas |-> "grid", size |-> grid_size]>>
    /\ pc' = "done"
    /\ UNCHANGED <<args, max_columns, max_rows, size, grid_size, idx, pastes, left_padding,
                   top_padding, image_size, grid_offset, xy, i, bands>>

\* _create_images_grid, lines 59-68
call_create_grid_annotations ==
    /\ pc = "arrange"
    /\ idx = Len(images)
    /\ annotation # <<>>
    /\ pc' = "annotate"
    /\ UNCHANGED <<args, max_columns, max_rows, size, grid_size, idx, pastes, left_padding,
                   top_padding, image_size, grid_offset, xy, i, bands, result>>

\* _create_grid_annotations, lines 94-95
raise_value_error ==
    /\ pc = "annotate"
    /\ annotation_invalid(annotation[1].column_texts, annotation[1].row_texts)
    /\ pc' = "error"
    /\ UNCHANGED <<args, max_columns, max_rows, size, grid_size, idx, pastes, left_padding,
                   top_padding, image_size, grid_offset, xy, i, bands, result>>

\* slip of lines 94-106: the labels validated after the canvas is allocated
new_annotated_image_then_validate ==
    /\ pc = "annotate"
    /\ annotation[1].row_texts # <<>>
    /\ left_padding' = left_padding_of(annotation[1].row_texts, annotation[1].font_size)
    /\ top_padding' = top_padding_of(annotation[1].font_size)
    /\ image_size' = <<grid_size[1] + left_padding', grid_size[2] + top_padding'>>
    /\ pc' = IF annotation_invalid(annotation[1].column_texts, annotation[1].row_texts)
             THEN "error" ELSE "paste_grid"
    /\ UNCHANGED <<args, max_columns, max_rows, size, grid_size, idx, pastes, grid_offset,
                   xy, i, bands, result>>

\* _create_grid_annotations, lines 97-108: paddings, the annotated canvas is allocated
new_annotated_image ==
    /\ pc = "annotate"
    /\ ~annotation_invalid(annotation[1].column_texts, annotation[1].row_texts)
    /\ left_padding' = left_padding_of(annotation[1].row_texts, annotation[1].font_size)
    /\ top_padding' = top_padding_of(annotation[1].font_size)
    /\ image_size' = <<grid_size[1] + left_padding', grid_size[2] + top_padding'>>
    /\ pc' = "paste_grid"
    /\ UNCHANGED <<args, max_columns, max_rows, size, grid_size, idx, pastes, grid_offset,
                   xy, i, bands, result>>

\* _paste_image_to_lower_left_corner, lines 110 and 194-195
paste_image_to_lower_left_corner ==
    /\ pc = "paste_grid"
    /\ grid_offset' = lower_left_offset(image_size, grid_size)
    /\ pc' = "column_text"
    /\ UNCHANGED <<args, max_columns, max_rows, size, grid_size, idx, pastes, left_padding,
                   top_padding, image_size, xy, i, bands, result>>

\* _draw_column_text, lines 136-140
draw_column_text_enter ==
    /\ pc = "column_text"
    /\ i' = 0
    /\ xy' = <<left_padding, 0, left_padding + size[1], top_padding>>
    /\ pc' = "column_loop"
    /\ UNCHANGED <<args, max_columns, max_rows, size, grid_size, idx, pastes, left_padding,
                   top_padding, image_size, grid_offset, bands, result>>

\* _draw_column_text, lines 141-144: one iteration
draw_column_text_band ==
    /\ pc = "column_loop"
    /\ xy[1] # grid_size[1] + left_padding + gap
    /\ xy[1] <= CoordCap
    /\ bands' = Append(bands, [axis |-> "column", xy |-> xy, index |-> i,
                               drawn |-> drawn_text(annotation[1].column_texts, i)])
    /\ i' = i + 1
    /\ xy' = <<xy[1] + band_step(size[1], gap), xy[2], xy[3] + band_step(size[1], gap), xy[4]>>
    /\ UNCHANGED <<args, pc, max_columns, max_rows, size, grid_size, idx, pastes,
                   left_padding, top_padding, image_size, grid_offset, result>>

\* _draw_column_text, line 141: the loop ends
draw_column_text_return ==
    /\ pc = "column_loop"
    /\ xy[1] = grid_size[1] + left_padding + gap
    /\ pc' = "row_text"
    /\ UNCHANGED <<args, max_columns, max_rows, size, grid_size, idx, pastes, left_padding,
                   top_padding, image_size, grid_offset, xy, i, bands, result>>

\* _draw_row_text, lines 154-158
draw_row_text_enter ==
    /\ pc = "row_text"
    /\ i' = 0
    /\ xy' = <<0, top_padding, left_padding, top_padding + size[2]>>
    /\ pc' = "row_loop"
    /\ UNCHANGED <<args, max_columns, max_rows, size, grid_size, idx, pastes, left_padding,
                   top_padding, image_size, grid_offset, bands, result>>

\* _draw_row_text, lines 159-162: one iteration
draw_row_text_band ==
    /\ pc = "row_loop"
    /\ xy[2] # grid_size[2] + top_padding + gap
    /\ xy[2] <= CoordCap
    /\ bands' = Append(bands, [axis |-> "row", xy |-> xy, index |-> i,
                               drawn |-> drawn_text(annotation[1].row_texts, i)])
    /\ i' = i + 1
    /\ xy' = <<xy[1], xy[2] + band_step(size[2], gap), xy[3], xy[4] + band_step(size[2], gap)>>
    /\ UNCHANGED <<args, pc, max_columns, max_rows, size, grid_size, idx, pastes,
                   left_padding, top_padding, image_size, grid_offset, result>>

\* _draw_row_text, line 159, and _create_grid_annotations, line 126
return_annotated_image ==
    /\ pc = "row_loop"
    /\ xy[2] = grid_size[2] + top_padding + gap
    /\ result' = <<[canvas |-> "annotated", size |-> image_size]>>
    /\ pc' = "done"
    /\ UNCHANGED <<args, max_columns, max_rows, size, grid_size, idx, pastes, left_padding,
                   top_padding, image_size, grid_offset, xy, i, bands>>

Next ==
    \/ create_images_grid_by_columns
    \/ create_images_grid_by_rows
    \/ create_images_grid
    \/ arrange_images_on_grid
    \/ return_grid
    \/ call_create_grid_annotations
    \/ raise_value_error
    \/ new_annotated_image
    \/ paste_image_to_lower_left_corner
    \/ draw_column_text_enter
    \/ draw_column_text_band
    \/ draw_column_text_return
    \/ draw_row_text_enter
    \/ draw_row_text_band
    \/ return_annotated_image

Spec == Init /\ [][Next]_vars

\* images of mixed sizes
SpecMixed == InitMixed /\ [][Next]_vars

\* the call is synchronous and single-threaded: an enabled step is taken
FairSpec == Init /\ [][Next]_vars /\ WF_vars(Next)

(* ------------------------ vocabulary of the claims --------------------- *)

\* ceil(n / m), by its defining inequalities
CeilDiv(n, m) == CHOOSE k \in 0..n : k * m >= n /\ (k - 1) * m < n

\* floor(n / 2), by its defining inequalities
HalfDown(n) == CHOOSE m \in 0..n : 2 * m <= n /\ n < 2 * m + 2

ImageCount == Len(images)

\* the column and row counts the arguments ask for
WantedColumns == IF entry = "by_columns" THEN max_arg ELSE CeilDiv(ImageCount, max_arg)
WantedRows == IF entry = "by_rows" THEN max_arg ELSE CeilDiv(ImageCount, max_arg)

TileW == images[1][1]
TileH == images[1][2]

AllSameSize == \A k \in 1..ImageCount : images[k] = images[1]

HasAnnotation == annotation # <<>>
ColumnTexts == annotation[1].column_texts
RowTexts == annotation[1].row_texts
FontSize == annotation[1].font_size
EmptyLabels == HasAnnotation /\ (ColumnTexts = <<>> \/ RowTexts = <<>>)
ValidAnnotation == HasAnnotation /\ ColumnTexts # <<>> /\ RowTexts # <<>>

OnAxis(a) == SelectSeq(bands, LAMBDA b : b.axis = a)
LabelsOf(a) ==
    IF ~HasAnnotation THEN <<>> ELSE IF a = "column" THEN ColumnTexts ELSE RowTexts

Min(a, b) == IF a <= b THEN a ELSE b

(* ------------------------------- C1 ------------------------------------ *)
\* C1: create_images_grid_by_columns without annotation returns a canvas of
\* width tileW*maxColumns + gap*(maxColumns-1) and height tileH*rows + gap*(rows-1),
\* rows = ceil(n/maxColumns), (tileW, tileH) the size of the first image.
C1_ColumnsCanvasSize ==
    (pc = "done" /\ entry = "by_columns" /\ ~HasAnnotation) =>
        LET rows == CeilDiv(ImageCount, max_arg)
        IN /\ result # <<>>
           /\ result[1].canvas = "grid"
           /\ result[1].size = <<TileW * max_arg + gap * (max_arg - 1),
                                 TileH * rows + gap * (rows - 1)>>

C1_Witness ==
    /\ pc = "done" /\ entry = "by_columns" /\ ~HasAnnotation
    /\ ImageCount = 4 /\ max_arg = 3 /\ gap = 1
    /\ images[4] # images[1]
    /\ TileW # TileH

(* ------------------------------- C2 ------------------------------------ *)
\* C2: for equal-sized images and r with ceil(n/ceil(n/r)) = r, the canvas of
\* create_images_grid_by_rows(images, gap, r) has the width and height of the canvas
\* of create_images_grid_by_columns(images, gap, ceil(n/r)).
C2_RowsAgreeWithColumns ==
    (/\ entry = "by_rows"
     /\ AllSameSize
     /\ CeilDiv(ImageCount, CeilDiv(ImageCount, max_arg)) = max_arg
     /\ grid_size # <<>>) =>
        /\ grid_size = by_columns_grid_size(images, gap, CeilDiv(ImageCount, max_arg))
        /\ (pc = "done" /\ ~HasAnnotation) => result[1].size = grid_size

C2_Witness ==
    /\ pc = "done" /\ entry = "by_rows" /\ ~HasAnnotation
    /\ ImageCount = 3 /\ max_arg = 2 /\ gap = 1
    /\ CeilDiv(ImageCount, CeilDiv(ImageCount, max_arg)) = max_arg

(* ------------------------------- C3 ------------------------------------ *)
\* the rectangles two paste calls cover share no pixel
Disjoint(p, q) ==
    \/ p.x + p.source[1] <= q.x
    \/ q.x + q.source[1] <= p.x
    \/ p.y + p.source[2] <= q.y
    \/ q.y + q.source[2] <= p.y

\* C3: when all images have the first image's size, the destination rectangles
\* of two distinct image indices never overlap, for both entry points.
C3_TilesDoNotOverlap ==
    AllSameSize =>
        \A a, b \in 1..Len(pastes) :
            a # b => /\ pastes[a].index # pastes[b].index
                     /\ Disjoint(pastes[a], pastes[b])

C3_Witness ==
    /\ AllSameSize /\ entry = "by_rows"
    /\ Len(pastes) = 4 /\ max_arg = 3 /\ gap = 0

(* ------------------------------- C4 ------------------------------------ *)
\* C4: an annotation with an empty column or row label sequence makes the call
\* end with the error and return no image; with both sequences non-empty (or no
\* annotation) the error is never raised.
C4_EmptyLabelsRaise ==
    /\ EmptyLabels =>
           /\ pc \in {"call", "create", "arrange", "annotate", "error"}
           /\ result = <<>>
    /\ ~EmptyLabels => pc # "error"

C4_Witness ==
    /\ pc = "error" /\ HasAnnotation
    /\ ColumnTexts = <<>> /\ RowTexts # <<>>

(* ------------------------------- C5 ------------------------------------ *)
\* the widest row label and the whole pixels of its measured width
WidestRowText == CHOOSE w \in {RowTexts[k] : k \in 1..Len(RowTexts)} :
                     \A k \in 1..Len(RowTexts) : RowTexts[k] <= w
WholePixels(w) == CHOOSE k \in 0..w : k * SubPixel <= w /\ w < (k + 1) * SubPixel

\* C5: with a valid annotation the canvas is (gridW + leftPadding, gridH + topPadding),
\* margin = floor(fontSize/2), topPadding = fontSize + 2*margin, leftPadding = integer
\* part of the widest row label's width + 2*margin; the grid is pasted at
\* (leftPadding, topPadding), its bottom-right corner on the canvas's.
C5_AnnotatedCanvasSize ==
    (ValidAnnotation /\ image_size # <<>>) =>
        LET margin == HalfDown(FontSize)
            top == FontSize + 2 * margin
            left == WholePixels(WidestRowText) + 2 * margin
        IN /\ image_size = <<grid_size[1] + left, grid_size[2] + top>>
           /\ grid_offset # <<>> =>
                  /\ grid_offset = <<left, top>>
                  /\ grid_offset[1] + grid_size[1] = image_size[1]
                  /\ grid_offset[2] + grid_size[2] = image_size[2]
           /\ pc = "done" =>
                  /\ grid_offset # <<>>
                  /\ result = <<[canvas |-> "annotated", size |-> image_size]>>

C5_Witness ==
    /\ pc = "done" /\ ValidAnnotation
    /\ FontSize = 3 /\ RowTexts = <<1, 3>>
    /\ grid_offset # <<>> /\ gap = 1

(* ------------------------------- C6 ------------------------------------ *)
Smaller(img, sz) == img[1] <= sz[1] /\ img[2] <= sz[2] /\ img # sz

\* C6 as stated: an image smaller than the first image is pasted as-is, with no
\* crop and its own width and height.
C6_SmallerPastedAsIs ==
    \A k \in 1..Len(pastes) :
        LET image == images[pastes[k].index + 1]
        IN Smaller(image, images[1]) =>
               /\ ~pastes[k].cropped
               /\ pastes[k].source = image

\* C6 amended: every image whose size differs from the first image's, a smaller
\* one included, goes through crop((0, 0, tileW, tileH)), so that every pasted
\* source has the tile size; only images of exactly the tile size are not cropped.
C6_CroppedWheneverSizeDiffers ==
    \A k \in 1..Len(pastes) :
        LET image == images[pastes[k].index + 1]
        IN /\ pastes[k].cropped <=> (image # images[1])
           /\ pastes[k].source = images[1]

C6_Witness ==
    \E k \in 1..Len(pastes) :
        /\ Smaller(images[pastes[k].index + 1], images[1])
        /\ pastes[k].cropped
        /\ pastes[k].source # images[pastes[k].index + 1]

(* ------------------------------- C7 ------------------------------------ *)
\* C7: with an empty label sequence the grid canvas is allocated and every tile
\* pasted before the error is raised, and the error is raised before the annotated
\* canvas is allocated or a label drawn; no annotated canvas is returned.
C7_ErrorAfterGridBeforeAnnotation ==
    /\ pc = "error" =>
           /\ EmptyLabels
           /\ grid_size # <<>>
           /\ Len(pastes) = ImageCount
           /\ \A k \in 1..ImageCount : pastes[k].index = k - 1
    /\ EmptyLabels =>
           /\ image_size = <<>>
           /\ grid_offset = <<>>
           /\ bands = <<>>
           /\ result = <<>>

C7_Witness ==
    /\ pc = "error" /\ EmptyLabels
    /\ RowTexts = <<>>
    /\ Len(pastes) = 4 /\ grid_size # <<>> /\ image_size = <<>>

(* ------------------------------- C8 ------------------------------------ *)
\* the k-th band of an axis starts k-1 steps after the padding
BandsInPlace ==
    /\ \A k \in 1..Len(OnAxis("column")) :
           /\ k <= WantedColumns
           /\ OnAxis("column")[k].xy[1] = left_padding + (k - 1) * (TileW + gap)
    /\ \A k \in 1..Len(OnAxis("row")) :
           /\ k <= WantedRows
           /\ OnAxis("row")[k].xy[2] = top_padding + (k - 1) * (TileH + gap)

\* C8: the loop of _draw_column_text ends after exactly maxColumns bands, band k
\* starting at leftPadding + k*(tileW+gap), and the loop of _draw_row_text after
\* exactly maxRows bands, band k starting at topPadding + k*(tileH+gap), whatever
\* the number of labels.
C8_LabelLoopsTerminate ==
    /\ []BandsInPlace
    /\ (pc = "column_text") ~> (/\ pc = "done"
                                /\ Len(OnAxis("column")) = WantedColumns
                                /\ Len(OnAxis("row")) = WantedRows)

C8_Witness ==
    /\ pc = "done" /\ ValidAnnotation
    /\ WantedColumns = 3 /\ Len(ColumnTexts) = 1 /\ gap = 1
    /\ Len(OnAxis("column")) = 3
    /\ Len(OnAxis("row")) = WantedRows

(* ------------------------------- C9 ------------------------------------ *)
\* C9: the band with index i of an axis gets labels[i] when i < labelCount, and
\* nothing (and no error) when i >= labelCount, the index advancing by one per
\* band; each label is drawn at most once, labels beyond the bands never.
C9_LabelPerBand ==
    /\ \A a \in {"column", "row"} :
           /\ \A k \in 1..Len(OnAxis(a)) :
                  LET b == OnAxis(a)[k]
                  IN /\ b.index = k - 1
                     /\ b.index < Len(LabelsOf(a)) => b.drawn = <<LabelsOf(a)[b.index + 1]>>
                     /\ b.index >= Len(LabelsOf(a)) => b.drawn = <<>>
           /\ Len(SelectSeq(OnAxis(a), LAMBDA b : b.drawn # <<>>))
                  = Min(Len(OnAxis(a)), Len(LabelsOf(a)))
    /\ bands # <<>> => pc # "error"
    /\ (pc = "done" /\ HasAnnotation) =>
           /\ Len(OnAxis("column")) = max_columns
           /\ Len(OnAxis("row")) = max_rows

C9_Witness ==
    /\ pc = "done" /\ ValidAnnotation
    /\ Len(OnAxis("column")) > Len(ColumnTexts)
    /\ Len(OnAxis("row")) < Len(RowTexts)
    /\ \E k \in 1..Len(bands) : bands[k].drawn = <<>>

(* ------------------------------- C10 ----------------------------------- *)
\* C10: with images of the first image's size, tile i is pasted at
\* ((i mod cols)*(tileW+gap), (i div cols)*(tileH+gap)) and lies inside the grid
\* canvas; for create_images_grid_by_rows, cols = ceil(n/maxRows), no tile is in
\* a row >= maxRows.
C10_TilesInsideCanvas ==
    AllSameSize =>
        \A k \in 1..Len(pastes) :
            LET p == pastes[k]
                col == p.index % WantedColumns
                row == p.index \div WantedColumns
            IN /\ p.index = k - 1
               /\ p.x = col * (TileW + gap)
               /\ p.y = row * (TileH + gap)
               /\ p.x + TileW <= grid_size[1]
               /\ p.y + TileH <= grid_size[2]
               /\ row < WantedRows

C10_Witness ==
    /\ AllSameSize /\ entry = "by_rows"
    /\ ImageCount = 3 /\ max_arg = 2 /\ Len(pastes) = 3
    /\ pastes[3].y > 0

====
